---- MODULE Spec2Model ----
(***************************************************************************)
(* A model of loe-calendar-sync: main.py (fetch the outage page, extract   *)
(* the blackout intervals per group and day, classify against the previous *)
(* ScheduleState, record history, write the per-group calendars and the    *)
(* new ScheduleState) and sync_gcal.py (run main(), then reconcile the     *)
(* remote calendar pair by pair and write SyncState).                      *)
(*                                                                         *)
(* Time is counted in minutes: the timestamp of HH:MM on day d is          *)
(* d * MinutesPerDay + 60*HH + MM.  A time literal is the number of        *)
(* minutes 60*HH + MM, so the literal "24:00" is 1440.  A signature string *)
(* "HH:MM-HH:MM|HH:MM-HH:MM" is the sequence of its <<start, end>> clock   *)
(* pairs (fixed-width fields: the two encodings determine each other).     *)
(***************************************************************************)
EXTENDS Integers, Sequences, FiniteSets, Bags, TLC

\* ---------------------------------------------------------------- bounds
MaxDay == 2
MaxSections == 2
MaxRuns == 2
MaxFailures == 1
\* the longer behaviours of SpecLong: more runs over shorter pages
MaxRunsLong == 3
MaxSectionsLong == 1
\* the time ranges of one group section in SpecCalc
MaxRanges == 2

\* ------------------------------------------------------ program constants
MinutesPerDay == 1440
\* the half-hour slots of the visual timeline
SlotCount == 48

Dates == 1..MaxDay

\* GROUPS of the environment (main.py line 28), here a single group
ALL_GROUPS == <<"g1">>

\* config.yaml "calendars": g1 is a configured group, g3 is mapped to a
\* calendar but is not one of ALL_GROUPS; both share the calendar c1.
calendar_mapping == <<[group |-> "g1", cal |-> "c1"], [group |-> "g3", cal |-> "c1"]>>

Range(s) == {s[i] : i \in DOMAIN s}

\* dict helpers: a dict is a function, {} is the empty function
EmptyDict == <<>>
Put(m, k, v) == [x \in (DOMAIN m) \cup {k} |-> IF x = k THEN v ELSE m[x]]
GetOr(m, k, default) == IF k \in DOMAIN m THEN m[k] ELSE default

\* ------------------------------------------------------------- time logic
\* datetime.combine(date_obj [+1 day], time) as minutes since day 0
parse_time_aware(date_obj, time_str) ==
    IF time_str = MinutesPerDay
    THEN (date_obj + 1) * MinutesPerDay
    ELSE date_obj * MinutesPerDay + time_str

\* the clock time of a timestamp in minutes, the date dropped
Clock(t) == t % MinutesPerDay

\* .date() of a timestamp
DateOf(t) == t \div MinutesPerDay

\* f"{n:02d}": two decimal digits
Pad2(n) == IF n < 10 THEN "0" \o ToString(n) ELSE ToString(n)

\* the minutes left out of the format
HHMMHourOnly(t) == Pad2(Clock(t) \div 60) \o ":00"

\* strftime('%H:%M') of a timestamp
HHMM(t) == Pad2(Clock(t) \div 60) \o ":" \o Pad2(Clock(t) % 60)

\* "|".join(f"{start:%H:%M}-{end:%H:%M}" for start, end in intervals)
RECURSIVE get_intervals_signature(_)
get_intervals_signature(intervals) ==
    IF intervals = <<>> THEN ""
    ELSE LET sig == HHMM(Head(intervals)[1]) \o "-" \o HHMM(Head(intervals)[2])
         IN  IF Len(intervals) = 1 THEN sig
             ELSE sig \o "|" \o get_intervals_signature(Tail(intervals))

\* the comparison loosened: an end equal to the start is advanced too
ResolveRangeNotAfter(target_date, range) ==
    LET start_dt == parse_time_aware(target_date, range[1])
        end_dt == parse_time_aware(target_date, range[2])
    IN  <<start_dt, IF end_dt <= start_dt THEN end_dt + MinutesPerDay ELSE end_dt>>

\* the (start_dt, end_dt) of one "з HH:MM до HH:MM" match
ResolveRange(target_date, range) ==
    LET start_dt == parse_time_aware(target_date, range[1])
        end_dt == parse_time_aware(target_date, range[2])
    IN  <<start_dt, IF end_dt < start_dt THEN end_dt + MinutesPerDay ELSE end_dt>>

\* list.sort(key=lambda x: x[0]): stable, ascending by start
RECURSIVE InsertByStart(_, _)
InsertByStart(sorted, x) ==
    IF sorted = <<>> THEN <<x>>
    ELSE IF x[1] < Head(sorted)[1] THEN <<x>> \o sorted
    ELSE <<Head(sorted)>> \o InsertByStart(Tail(sorted), x)

RECURSIVE SortByStart(_)
SortByStart(s) ==
    IF s = <<>> THEN <<>>
    ELSE InsertByStart(SortByStart(SubSeq(s, 1, Len(s) - 1)), s[Len(s)])

\* the gap test loosened: a gap of no length becomes an event too
RECURSIVE PositiveEventsWithEmptyGaps(_, _, _)
PositiveEventsWithEmptyGaps(intervals, current_time, day_end) ==
    IF intervals = <<>>
    THEN IF current_time <= day_end
         THEN <<[name |-> "power", begin |-> current_time, end |-> day_end]>>
         ELSE <<>>
    ELSE LET b_start == Head(intervals)[1]
             b_end == Head(intervals)[2]
             next_time == IF current_time > b_end THEN current_time ELSE b_end
             gap == IF current_time <= b_start
                    THEN <<[name |-> "power", begin |-> current_time, end |-> b_start]>>
                    ELSE <<>>
         IN  gap \o PositiveEventsWithEmptyGaps(Tail(intervals), next_time, day_end)

\* the "Є світло" events: the gaps of the day left by the blackout intervals
RECURSIVE PositiveEvents(_, _, _)
PositiveEvents(intervals, current_time, day_end) ==
    IF intervals = <<>>
    THEN IF current_time < day_end
         THEN <<[name |-> "power", begin |-> current_time, end |-> day_end]>>
         ELSE <<>>
    ELSE LET b_start == Head(intervals)[1]
             b_end == Head(intervals)[2]
             next_time == IF current_time > b_end THEN current_time ELSE b_end
             gap == IF current_time < b_start
                    THEN <<[name |-> "power", begin |-> current_time, end |-> b_start]>>
                    ELSE <<>>
         IN  gap \o PositiveEvents(Tail(intervals), next_time, day_end)

RECURSIVE SumDurations(_)
SumDurations(intervals) ==
    IF intervals = <<>> THEN 0
    ELSE (Head(intervals)[2] - Head(intervals)[1]) * 60 + SumDurations(Tail(intervals))

\* create_visual_timeline_with_ruler: the indices of the slots set to True
SlotIndex(t) == (Clock(t) \div 60) * 2 + (IF Clock(t) % 60 >= 30 THEN 1 ELSE 0)
create_visual_timeline_with_ruler(blackout_intervals) ==
    LET start_idx(iv) == SlotIndex(iv[1])
        end_idx(iv) == IF DateOf(iv[2]) > DateOf(iv[1]) THEN SlotCount
                       ELSE SlotIndex(iv[2])
    IN  {i \in 0..(SlotCount - 1) :
            \E k \in DOMAIN blackout_intervals :
                /\ start_idx(blackout_intervals[k]) <= i
                /\ i < end_idx(blackout_intervals[k])}

\* time_ranges: the (start_str, end_str) matches of the group's section, in
\* order of appearance (<<>> when the group has no match in the text)
generate_events_for_group(group_id, target_date, time_ranges) ==
    LET resolved == [i \in 1..Len(time_ranges) |-> ResolveRange(target_date, time_ranges[i])]
        blackout_intervals == SortByStart(resolved)
        blackouts == [i \in 1..Len(resolved) |->
                        [name |-> "blackout", begin |-> resolved[i][1], end |-> resolved[i][2]]]
        day_start == target_date * MinutesPerDay
    IN  [events |-> blackouts \o PositiveEvents(blackout_intervals, day_start, day_start + MinutesPerDay),
         blackout_intervals |-> blackout_intervals,
         intervals_list |-> time_ranges,
         intervals_signature |-> get_intervals_signature(blackout_intervals),
         total_off |-> SumDurations(resolved)]

\* ------------------------------------------------------- persisted files
\* A JSON file on disk: missing, unparsable ("corrupt"), a JSON array
\* ("list": parsable, but not the expected object) or an object ("dict").
StateVal(hasDates, dates, hasGroups, groups) ==
    [hasDates |-> hasDates, dates |-> dates, hasGroups |-> hasGroups, groups |-> groups]
EmptyStateVal == StateVal(FALSE, <<>>, FALSE, EmptyDict)
Doc(kind, val) == [kind |-> kind, val |-> val]

\* load_json: {} unless the file exists and parses
load_json(doc, empty) ==
    IF doc.kind \in {"missing", "corrupt"}
    THEN [isDict |-> TRUE, val |-> empty]
    ELSE [isDict |-> doc.kind = "dict", val |-> doc.val]

\* save_json: a failed write is swallowed and leaves the file as it was
save_json(doc, data, ok) == IF ok THEN Doc("dict", data) ELSE doc

\* ------------------------------------------------------------ the page
\* What the regular expressions find in the page text: the schedule
\* sections in order of appearance, each with the date of its header and,
\* per group, the (start, end) literals of its "з .. до .." matches.
TimeRangeChoices == {<<>>, <<<<600, 720>>>>, <<<<1380, 60>>>>}
GroupSet == Range(ALL_GROUPS)
Sections == [date : Dates, ranges : [GroupSet -> TimeRangeChoices]]
SectionSeqs == UNION {[1..n -> Sections] : n \in 0..MaxSections}
Pages == {[fetched |-> FALSE, sections |-> <<>>]}
         \cup {[fetched |-> TRUE, sections |-> s] : s \in SectionSeqs}

\* schedules.sort(key=lambda x: x[0]): stable, ascending by date
RECURSIVE InsertByDate(_, _)
InsertByDate(sorted, x) ==
    IF sorted = <<>> THEN <<x>>
    ELSE IF x.date < Head(sorted).date THEN <<x>> \o sorted
    ELSE <<Head(sorted)>> \o InsertByDate(Tail(sorted), x)

RECURSIVE SortByDate(_)
SortByDate(s) ==
    IF s = <<>> THEN <<>>
    ELSE InsertByDate(SortByDate(SubSeq(s, 1, Len(s) - 1)), s[Len(s)])

RECURSIVE SeqToBag(_)
SeqToBag(s) == IF s = <<>> THEN EmptyBag ELSE SetToBag({Head(s)}) (+) SeqToBag(Tail(s))

\* ----------------------------------------------------------------- main
\* the (date, group) iterations of main's nested loop, in order, each with
\* the statistics generate_events_for_group returns for it
LoopItems(schedules) ==
    LET n == Len(ALL_GROUPS)
    IN  [k \in 1..(Len(schedules) * n) |->
            LET sec == schedules[((k - 1) \div n) + 1]
                group == ALL_GROUPS[((k - 1) % n) + 1]
            IN  [date |-> sec.date, group |-> group,
                 stats |-> generate_events_for_group(group, sec.date, sec.ranges[group])]]

\* the load forgotten: the entry is put into an empty log
update_history_into_empty(history, date_str, group, seconds_off, intervals_list) ==
    Put(EmptyDict, date_str,
        Put(EmptyDict, group, [total_seconds |-> seconds_off, intervals |-> intervals_list]))

\* update_history on the loaded history dict
update_history(history, date_str, group, seconds_off, intervals_list) ==
    LET day == GetOr(history, date_str, EmptyDict)
    IN  Put(history, date_str,
            Put(day, group, [total_seconds |-> seconds_off, intervals |-> intervals_list]))

RECURSIVE HistoryAfter(_, _)
HistoryAfter(history, items) ==
    IF items = <<>> THEN history
    ELSE HistoryAfter(update_history(history, Head(items).date, Head(items).group,
                                     Head(items).stats.total_off,
                                     Head(items).stats.intervals_list),
                      Tail(items))

\* new_state["groups"][group][date] = sig, in loop order (a later section of
\* the same date overwrites an earlier one)
RECURSIVE SignaturesOf(_, _, _)
SignaturesOf(acc, items, group) ==
    IF items = <<>> THEN acc
    ELSE SignaturesOf(IF Head(items).group = group
                      THEN Put(acc, Head(items).date, Head(items).stats.intervals_signature)
                      ELSE acc,
                      Tail(items), group)

NewState(schedules, items) ==
    StateVal(TRUE, [i \in 1..Len(schedules) |-> schedules[i].date],
             TRUE, [g \in GroupSet |-> SignaturesOf(EmptyDict, items, g)])

\* the test of the date against the previous dates left out
ClassifyBySignatureOnly(prev_state, target_date_str, group, sig) ==
    LET prev_sig == GetOr(GetOr(IF prev_state.hasGroups THEN prev_state.groups ELSE EmptyDict,
                                group, EmptyDict),
                          target_date_str, "")
    IN  IF prev_sig # sig THEN "Changed" ELSE "Unchanged"

\* the status main prints for one (date, group): lines 360-369
Classify(prev_state, target_date_str, group, sig) ==
    LET prev_sig == GetOr(GetOr(IF prev_state.hasGroups THEN prev_state.groups ELSE EmptyDict,
                                group, EmptyDict),
                          target_date_str, "")
        prev_dates == IF prev_state.hasDates THEN Range(prev_state.dates) ELSE {}
    IN  IF target_date_str \notin prev_dates THEN "New"
        ELSE IF prev_sig # sig THEN "Changed"
        ELSE "Unchanged"

\* group_calendars[group]: the events of all processed dates of the group
RECURSIVE CalendarOf(_, _)
CalendarOf(items, group) ==
    IF items = <<>> THEN EmptyBag
    ELSE (IF Head(items).group = group THEN SeqToBag(Head(items).stats.events) ELSE EmptyBag)
         (+) CalendarOf(Tail(items), group)

\* what main computes from the page alone: the sorted schedules, the loop's
\* iterations, the new ScheduleState and the calendars of the groups
ParsePage(page) ==
    LET schedules == SortByDate(page.sections)
        items == LoopItems(schedules)
    IN  [items |-> items,
         new_state |-> NewState(schedules, items),
         calendars |-> [g \in GroupSet |-> CalendarOf(items, g)]]

Parsed == [page \in Pages |-> ParsePage(page)]

\* a forgotten header check: main goes on with no schedule at all
PageUsableWithoutHeaderCheck(page) == page.fetched

\* the page was fetched and holds a schedule header (else sys.exit(1))
PageUsable(page) == page.fetched /\ page.sections # <<>>

\* main(): what one call does to the files, from the page it fetched.
\* exit: "ok", "exit1" (sys.exit(1)) or "crash" (an uncaught exception).
main(page, state_doc, history_doc, ics, save_ok) ==
    LET loaded == load_json(state_doc, EmptyStateVal)
        prev_state == IF loaded.isDict /\ loaded.val.hasGroups /\ ~loaded.val.hasDates
                      THEN StateVal(TRUE, <<>>, TRUE, EmptyDict)
                      ELSE loaded.val
        history == load_json(history_doc, EmptyDict)
        items == Parsed[page].items
        unchanged == [exit |-> "exit1", state |-> state_doc, history |-> history_doc,
                      ics |-> ics, classes |-> <<>>]
    IN  IF ~PageUsable(page) THEN unchanged
        ELSE IF ~history.isDict /\ items # <<>>
        THEN [unchanged EXCEPT !.exit = "crash"]
        ELSE IF ~loaded.isDict /\ items # <<>>
        THEN [unchanged EXCEPT !.exit = "crash",
                !.history = save_json(history_doc,
                                      HistoryAfter(history.val, SubSeq(items, 1, 1)), TRUE)]
        ELSE [exit |-> "ok",
              state |-> save_json(state_doc, Parsed[page].new_state, save_ok),
              history |-> save_json(history_doc, HistoryAfter(history.val, items), TRUE),
              ics |-> Parsed[page].calendars,
              classes |-> [k \in 1..Len(items) |->
                             [date |-> items[k].date, group |-> items[k].group,
                              sig |-> items[k].stats.intervals_signature,
                              status |-> Classify(prev_state, items[k].date, items[k].group,
                                                  items[k].stats.intervals_signature)]]]

\* ------------------------------------------------------ remote calendar
\* A remote event: its summary is "<name> (Гр. <tag>)".  Events of name
\* "blackout" carry the text "Нема світла" the list call searches for.
RemoteEvent(name, tag, begin, end) == [name |-> name, tag |-> tag, begin |-> begin, end |-> end]

BagOfSubset(B, keep) == [e \in keep |-> B[e]]

\* events().list(timeMin, timeMax, q="Нема світла"): the events of the
\* calendar that overlap the window and contain the search text
ListEvents(calendar, start_dt, end_dt) ==
    BagOfSubset(calendar, {e \in DOMAIN calendar :
                              e.name = "blackout" /\ e.end > start_dt /\ e.begin < end_dt})

\* the tag filter forgotten: every listed event is deleted
events_to_delete_unfiltered(events, group_id) == events

\* f"(Гр. {group_id})" in summary
events_to_delete(events, group_id) ==
    BagOfSubset(events, {e \in DOMAIN events : e.tag = group_id})

\* the name filter forgotten: the "Є світло" events are returned too
get_local_events_unfiltered(ics, group_id) ==
    IF group_id \in DOMAIN ics THEN ics[group_id] ELSE EmptyBag

\* get_local_events: the "Нема світла" events of the group's .ics file
get_local_events(ics, group_id) ==
    IF group_id \in DOMAIN ics
    THEN BagOfSubset(ics[group_id], {e \in DOMAIN ics[group_id] : e.name = "blackout"})
    ELSE EmptyBag

\* day_events: the local events that begin on the target date (times are
\* minutes in TZ, which is UTC unless TIMEZONE is set: the dates the .ics
\* file gives back are those main wrote)
day_events(local_events, target_date) ==
    BagOfSubset(local_events, {e \in DOMAIN local_events : DateOf(e.begin) = target_date})

\* the event bodies insert_events_batch sends
InsertBodies(events, group_id) ==
    LET bodies == {RemoteEvent(e.name, group_id, e.begin, e.end) : e \in DOMAIN events}
    IN  [b \in bodies |-> events[[name |-> b.name, begin |-> b.begin, end |-> b.end]]]

\* ------------------------------------------------------------------ state
VARIABLES
    stateFile,      \* schedule_state.json
    historyFile,    \* history.json
    syncFile,       \* sync_state.json
    icsFiles,       \* group_<g>.ics, per group of ALL_GROUPS
    remote,         \* the remote calendars: calendar id -> bag of events
    pc,             \* "idle" | "reconcile": where sync_all stands
    run,            \* the current (or last) run: entry point, page, exit, classes
    schedule_state, \* sync_all's loaded ScheduleState
    sync_state,     \* sync_all's in-memory SyncState
    queue,          \* the (group, calendar, date) iterations still to do
    any_changes,    \* sync_all's flag
    ops,            \* the remote operations issued in the run so far
    atStart,        \* the files and calendars as the run found them
    previous,       \* the run before: its page and whether it completed
    failures,       \* failed writes and failed remote phases so far
    runs,           \* runs started so far
    calc            \* one call of generate_events_for_group, step by step

vars == <<stateFile, historyFile, syncFile, icsFiles, remote, pc, run, schedule_state,
          sync_state, queue, any_changes, ops, atStart, previous, failures, runs, calc>>

NoRun == [entry |-> "none", page |-> [fetched |-> FALSE, sections |-> <<>>],
          exit |-> "none", classes |-> <<>>, stateSaved |-> FALSE, reconciled |-> FALSE,
          syncSaved |-> FALSE]
Snapshot == [stateFile |-> stateFile, historyFile |-> historyFile, syncFile |-> syncFile,
             icsFiles |-> icsFiles, remote |-> remote]

LegacyStateDoc == Doc("dict", StateVal(FALSE, <<>>, TRUE, [g \in GroupSet |-> EmptyDict]))

\* a ScheduleState written while GROUPS named another group only
OtherGroupsStateDoc ==
    Doc("dict", StateVal(TRUE, <<1>>, TRUE, [g \in {"g2"} |-> [d \in {1} |-> ""]]))

FreshDisk == [state |-> Doc("missing", EmptyStateVal), history |-> Doc("missing", EmptyDict),
              sync |-> Doc("missing", EmptyDict)]

\* the files a first run may find: none, or one of them damaged or old
InitialDisks ==
    {[state |-> s, history |-> Doc("missing", EmptyDict), sync |-> Doc("missing", EmptyDict)] :
        s \in {Doc("missing", EmptyStateVal), Doc("corrupt", EmptyStateVal),
               Doc("list", EmptyStateVal), LegacyStateDoc, OtherGroupsStateDoc}}
    \cup {[state |-> Doc("missing", EmptyStateVal), history |-> Doc(k, EmptyDict),
           sync |-> Doc("missing", EmptyDict)] : k \in {"corrupt", "list"}}
    \cup {[state |-> Doc("missing", EmptyStateVal), history |-> Doc("missing", EmptyDict),
           sync |-> Doc(k, EmptyDict)] : k \in {"corrupt", "list"}}

\* the shared calendar holds events this system does not own (another
\* group's, an untagged one) and one left from when g3 was a parsed group
InitialCalendar ==
    SetToBag({RemoteEvent("blackout", "g9", MinutesPerDay + 600, MinutesPerDay + 720),
              RemoteEvent("blackout", "none", MinutesPerDay + 600, MinutesPerDay + 720),
              RemoteEvent("blackout", "g3", MinutesPerDay + 600, MinutesPerDay + 720)})

InitOn(disks) ==
    /\ \E disk \in disks :
          /\ stateFile = disk.state
          /\ historyFile = disk.history
          /\ syncFile = disk.sync
    /\ icsFiles = [g \in GroupSet |-> EmptyBag]
    /\ remote = [c \in {"c1"} |-> InitialCalendar]
    /\ pc = "idle"
    /\ run = NoRun
    /\ schedule_state = EmptyStateVal
    /\ sync_state = EmptyDict
    /\ queue = <<>>
    /\ any_changes = FALSE
    /\ ops = <<>>
    /\ atStart = Snapshot
    /\ previous = NoRun
    /\ failures = 0
    /\ runs = 0

\* no call of generate_events_for_group is being followed
NoCalc == [stage |-> "none", target_date |-> 1, time_ranges |-> <<>>, resolved |-> <<>>,
           blackout_intervals |-> <<>>, positive_events |-> <<>>, slots |-> {},
           intervals_signature |-> ""]

Init == InitOn(InitialDisks) /\ calc = NoCalc

Cost(ok) == IF ok THEN 0 ELSE 1

\* a run begins: the counters, the snapshot, and the run before
Begin(max_runs) ==
    /\ pc = "idle"
    /\ runs < max_runs
    /\ runs' = runs + 1
    /\ atStart' = Snapshot
    /\ previous' = run
    /\ UNCHANGED calc

\* python main.py
MainRunOn(pages, max_runs) ==
    /\ Begin(max_runs)
    /\ \E page \in pages, save_ok \in BOOLEAN :
          \E m \in {main(page, stateFile, historyFile, icsFiles, save_ok)} :
              /\ m.exit # "ok" => save_ok
              /\ failures + Cost(save_ok) <= MaxFailures
              /\ failures' = failures + Cost(save_ok)
              /\ stateFile' = m.state
              /\ historyFile' = m.history
              /\ icsFiles' = m.ics
              /\ run' = [entry |-> "main", page |-> page, exit |-> m.exit,
                         classes |-> m.classes, stateSaved |-> m.exit = "ok" /\ save_ok,
                         reconciled |-> FALSE, syncSaved |-> FALSE]
    /\ ops' = <<>>
    /\ UNCHANGED <<syncFile, remote, pc, schedule_state, sync_state, queue, any_changes>>

\* the iterations of sync_all's nested loop, in order
PairQueue(available_dates) ==
    LET n == Len(available_dates)
    IN  [k \in 1..(Len(calendar_mapping) * n) |->
            [group |-> calendar_mapping[((k - 1) \div n) + 1].group,
             cal |-> calendar_mapping[((k - 1) \div n) + 1].cal,
             date |-> available_dates[((k - 1) % n) + 1]]]

MappedGroups == {calendar_mapping[i].group : i \in DOMAIN calendar_mapping}

\* python sync_gcal.py, up to the loop: main(), then the loads
SyncStartOn(pages, max_runs) ==
    /\ Begin(max_runs)
    /\ \E page \in pages, save_ok \in BOOLEAN :
          \E m \in {main(page, stateFile, historyFile, icsFiles, save_ok)} :
          LET loaded == load_json(m.state, EmptyStateVal)
              available_dates == IF loaded.val.hasDates THEN loaded.val.dates ELSE <<>>
              sync == load_json(syncFile, EmptyDict)
              go == m.exit = "ok" /\ available_dates # <<>> /\ sync.isDict
              exit == IF m.exit # "ok" THEN m.exit
                      ELSE IF available_dates = <<>> THEN "ok"
                      ELSE IF ~sync.isDict THEN "crash"
                      ELSE "running"
          IN  /\ m.exit # "ok" => save_ok
              /\ failures + Cost(save_ok) <= MaxFailures
              /\ failures' = failures + Cost(save_ok)
              /\ stateFile' = m.state
              /\ historyFile' = m.history
              /\ icsFiles' = m.ics
              /\ run' = [entry |-> "sync", page |-> page, exit |-> exit,
                         classes |-> m.classes, stateSaved |-> m.exit = "ok" /\ save_ok,
                         reconciled |-> FALSE, syncSaved |-> FALSE]
              /\ pc' = IF go THEN "reconcile" ELSE "idle"
              /\ schedule_state' = IF go THEN loaded.val ELSE EmptyStateVal
              /\ sync_state' = IF go
                               THEN [g \in (DOMAIN sync.val) \cup MappedGroups |->
                                        GetOr(sync.val, g, EmptyDict)]
                               ELSE EmptyDict
              /\ queue' = IF go THEN PairQueue(available_dates) ELSE <<>>
    /\ any_changes' = FALSE
    /\ ops' = <<>>
    /\ UNCHANGED <<syncFile, remote>>

Op(op, pair, ok, events, done) ==
    [op |-> op, group |-> pair.group, date |-> pair.date, ok |-> ok,
     events |-> events, done |-> done]

\* the signature sync_all passes for a pair: lines 264-267
SignatureFor(state, group_id, date_str) ==
    GetOr(GetOr(IF state.hasGroups THEN state.groups ELSE EmptyDict, group_id, EmptyDict),
          date_str, "")

\* the whole dict compared with the signature: never equal
IsSyncedComparingDict(last_synced_data, date_str, current_signature) == FALSE

\* synced_sig == current_signature (None equals no signature)
IsSynced(last_synced_data, date_str, current_signature) ==
    date_str \in DOMAIN last_synced_data /\ last_synced_data[date_str] = current_signature

\* one iteration of the loop: process_group_date for the next pair
ProcessGroupDate ==
    /\ pc = "reconcile"
    /\ queue # <<>>
    /\ LET pair == Head(queue)
           current_signature == SignatureFor(schedule_state, pair.group, pair.date)
           start_dt == pair.date * MinutesPerDay
           end_dt == start_dt + MinutesPerDay
           calendar == remote[pair.cal]
           new_events == InsertBodies(day_events(get_local_events(icsFiles, pair.group),
                                                 pair.date), pair.group)
       IN  IF IsSynced(sync_state[pair.group], pair.date, current_signature)
           THEN UNCHANGED <<remote, sync_state, any_changes, ops, failures>>
           ELSE \E list_ok \in BOOLEAN :
                  LET to_delete == IF list_ok
                                   THEN events_to_delete(ListEvents(calendar, start_dt, end_dt),
                                                         pair.group)
                                   ELSE EmptyBag
                  IN  \E deleted \in SubBag(to_delete), inserted \in SubBag(new_events) :
                        LET cost == Cost(list_ok) + Cost(deleted = to_delete)
                                    + Cost(inserted = new_events)
                            cleared == <<Op("list", pair, list_ok, EmptyBag, EmptyBag)>>
                                       \o (IF to_delete = EmptyBag THEN <<>>
                                           ELSE <<Op("delete", pair, deleted = to_delete,
                                                     to_delete, deleted)>>)
                            created == IF new_events = EmptyBag THEN <<>>
                                       ELSE <<Op("insert", pair, inserted = new_events,
                                                 new_events, inserted)>>
                        IN  /\ failures + cost <= MaxFailures
                            /\ failures' = failures + cost
                            /\ remote' = [remote EXCEPT
                                            ![pair.cal] = (calendar (-) deleted) (+) inserted]
                            /\ ops' = ops \o cleared \o created
                            /\ sync_state' = [sync_state EXCEPT ![pair.group] =
                                                Put(@, pair.date, current_signature)]
                            /\ any_changes' = TRUE
    /\ queue' = Tail(queue)
    /\ UNCHANGED <<stateFile, historyFile, syncFile, icsFiles, pc, run, schedule_state,
                   atStart, previous, runs, calc>>

\* after the loop: save SyncState if anything was processed
SyncFinish ==
    /\ pc = "reconcile"
    /\ queue = <<>>
    /\ \E save_ok \in BOOLEAN :
          /\ ~any_changes => save_ok
          /\ failures + Cost(save_ok) <= MaxFailures
          /\ failures' = failures + Cost(save_ok)
          /\ syncFile' = IF any_changes THEN save_json(syncFile, sync_state, save_ok)
                         ELSE syncFile
          /\ run' = [run EXCEPT !.exit = "ok", !.reconciled = TRUE, !.syncSaved = save_ok]
    /\ pc' = "idle"
    /\ UNCHANGED <<stateFile, historyFile, icsFiles, remote, schedule_state, sync_state,
                   queue, any_changes, ops, atStart, previous, runs, calc>>

MainRun == MainRunOn(Pages, MaxRuns)
SyncStart == SyncStartOn(Pages, MaxRuns)

Next == MainRun \/ SyncStart \/ ProcessGroupDate \/ SyncFinish

Spec == Init /\ [][Next]_vars

\* longer behaviours from a fresh installation: MaxRunsLong runs over pages
\* of at most MaxSectionsLong sections
ShortPages == {page \in Pages : Len(page.sections) <= MaxSectionsLong}
InitLong == InitOn({FreshDisk}) /\ calc = NoCalc
LongMainRun == MainRunOn(ShortPages, MaxRunsLong)
LongSyncStart == SyncStartOn(ShortPages, MaxRunsLong)

NextLong == LongMainRun \/ LongSyncStart \/ ProcessGroupDate \/ SyncFinish

SpecLong == InitLong /\ [][NextLong]_vars

\* --------------------------- generate_events_for_group, one step at a time
\* the HH:MM literals of the texts: 00:00, 10:00, 10:15, 12:00 and 24:00
TimeLiterals == {0, 600, 615, 720, MinutesPerDay}
TimeRanges == TimeLiterals \X TimeLiterals
TimeRangeLists == UNION {[1..n -> TimeRanges] : n \in 0..MaxRanges}

InitCalc ==
    /\ InitOn({FreshDisk})
    /\ \E d \in Dates, ranges \in TimeRangeLists :
          calc = [NoCalc EXCEPT !.stage = "matched", !.target_date = d,
                                !.time_ranges = ranges]

Untouched ==
    UNCHANGED <<stateFile, historyFile, syncFile, icsFiles, remote, pc, run, schedule_state,
                sync_state, queue, any_changes, ops, atStart, previous, failures, runs>>

\* the loop over time_ranges: lines 157-165
ResolveRanges ==
    /\ calc.stage = "matched"
    /\ calc' = [calc EXCEPT !.stage = "resolved",
                            !.resolved = [i \in DOMAIN calc.time_ranges |->
                                            ResolveRange(calc.target_date,
                                                         calc.time_ranges[i])]]
    /\ Untouched

\* blackout_intervals.sort(key=lambda x: x[0]): line 176
SortIntervals ==
    /\ calc.stage = "resolved"
    /\ calc' = [calc EXCEPT !.stage = "sorted",
                            !.blackout_intervals = SortByStart(calc.resolved)]
    /\ Untouched

\* the positive events, the timeline and the signature: lines 180-199
BuildStatistics ==
    /\ calc.stage = "sorted"
    /\ LET day_start == calc.target_date * MinutesPerDay
       IN  calc' = [calc EXCEPT
                      !.stage = "built",
                      !.positive_events = PositiveEvents(calc.blackout_intervals, day_start,
                                                         day_start + MinutesPerDay),
                      !.slots = create_visual_timeline_with_ruler(calc.blackout_intervals),
                      !.intervals_signature =
                          get_intervals_signature(calc.blackout_intervals)]
    /\ Untouched

NextCalc == ResolveRanges \/ SortIntervals \/ BuildStatistics

SpecCalc == InitCalc /\ [][NextCalc]_vars
\* ================================================================ claims
\* the step is process_group_date for the pair at the head of the queue
Processing == pc = "reconcile" /\ queue # <<>>
\* the remote operations the step issues
NewOps == SubSeq(ops', Len(ops) + 1, Len(ops'))
\* SyncState as persisted on disk
StoredSync == load_json(syncFile, EmptyDict).val
\* the ScheduleState the run found, after the legacy reset
PreviousState ==
    LET loaded == load_json(atStart.stateFile, EmptyStateVal).val
    IN  IF loaded.hasGroups /\ ~loaded.hasDates THEN StateVal(TRUE, <<>>, TRUE, EmptyDict)
        ELSE loaded
\* the signatures the run computed from its page: group -> date -> signature
FreshSignatures == Parsed[run.page].new_state.groups
\* the blackout intervals the page gives for a group that begin on a date,
\* as events: those of every section
RECURSIVE SectionBlackouts(_, _, _)
SectionBlackouts(sections, group, date) ==
    IF sections = <<>> THEN EmptyBag
    ELSE LET sec == Head(sections)
             r == IF group \in DOMAIN sec.ranges THEN sec.ranges[group] ELSE <<>>
             begins == SelectSeq([j \in 1..Len(r) |-> ResolveRange(sec.date, r[j])],
                                 LAMBDA iv : DateOf(iv[1]) = date)
         IN  SeqToBag([j \in 1..Len(begins) |->
                         RemoteEvent("blackout", group, begins[j][1], begins[j][2])])
             (+) SectionBlackouts(Tail(sections), group, date)
PageBlackouts(page, group, date) == SectionBlackouts(page.sections, group, date)
\* a run that went through parse, classify, reconcile and persist
Complete(r) == r.entry = "sync" /\ r.exit = "ok" /\ r.reconciled /\ r.stateSaved /\ r.syncSaved

\* C1: a pair whose list call failed, or whose delete and insert operations
\* all failed, keeps its previous SyncState entry (so it is retried).
C1_FailedBatchKeepsSyncState ==
    [][Processing /\ Len(ops') > Len(ops) =>
        LET fully_failed ==
                \/ ~NewOps[1].ok
                \/ Len(NewOps) > 1 /\ \A i \in 2..Len(NewOps) : NewOps[i].done = EmptyBag
        IN  fully_failed => sync_state'[Head(queue).group] = sync_state[Head(queue).group]]_vars

\* C2: when the signature the run computed for a pair equals the one
\* stored in SyncState, the pair's step issues no remote operation and
\* leaves its SyncState entry as it is.
C2_SyncedIsFixedPoint ==
    [][Processing =>
        LET pair == Head(queue)
            stored == GetOr(StoredSync, pair.group, EmptyDict)
            fresh == GetOr(FreshSignatures, pair.group, EmptyDict)
        IN  (pair.date \in DOMAIN stored /\ pair.date \in DOMAIN fresh
             /\ stored[pair.date] = fresh[pair.date])
            => ops' = ops /\ sync_state'[pair.group] = sync_state[pair.group]]_vars

\* C3: after two consecutive complete runs over the same page,
\* the second classified every pair Unchanged and issued no remote
\* operation; calendar and SyncState are as the first run left them.
C3_IdenticalRerunAllUnchanged ==
    (pc = "idle" /\ Complete(previous) /\ Complete(run) /\ run.page = previous.page)
    => /\ \A k \in DOMAIN run.classes : run.classes[k].status = "Unchanged"
       /\ ops = <<>>
       /\ remote = atStart.remote
       /\ syncFile = atStart.syncFile

\* C4 as stated: a step issues remote operations for a pair of a parsed
\* group only if the run classified the pair New or Changed (never
\* Unchanged) and its SyncState signature differs from the computed one.
C4_OnlyNewOrChangedReconciled ==
    [][Processing /\ Len(ops') > Len(ops) /\ Head(queue).group \in GroupSet =>
        LET pair == Head(queue)
            mine == {k \in DOMAIN run.classes : run.classes[k].group = pair.group
                                               /\ run.classes[k].date = pair.date}
            fresh == GetOr(FreshSignatures, pair.group, EmptyDict)
        IN  /\ mine # {}
            /\ \A k \in mine : run.classes[k].status \in {"New", "Changed"}
            /\ ~(pair.date \in DOMAIN sync_state[pair.group] /\ pair.date \in DOMAIN fresh
                 /\ sync_state[pair.group][pair.date] = fresh[pair.date])]_vars

\* C4 amended: a step issues remote operations for a pair only if the
\* pair's SyncState entry is missing or differs from the signature the
\* persisted ScheduleState holds for it (empty when it holds none).
C4_OnlyUnsyncedReconciled ==
    [][Processing /\ Len(ops') > Len(ops) =>
        LET pair == Head(queue)
            persisted == load_json(stateFile, EmptyStateVal).val
            sig == IF persisted.hasGroups /\ pair.group \in DOMAIN persisted.groups
                      /\ pair.date \in DOMAIN persisted.groups[pair.group]
                   THEN persisted.groups[pair.group][pair.date]
                   ELSE ""
        IN  \/ pair.date \notin DOMAIN sync_state[pair.group]
            \/ sync_state[pair.group][pair.date] # sig]_vars

C4_Witness ==
    /\ pc = "idle" /\ run.entry = "sync" /\ run.reconciled
    /\ \E i \in DOMAIN ops, k \in DOMAIN run.classes :
          /\ ops[i].group = run.classes[k].group /\ ops[i].date = run.classes[k].date
          /\ run.classes[k].status = "Unchanged"

\* the events of the pair's calendar that carry the pair's tag and overlap
\* the pair's day
TaggedInDay(pair) ==
    BagOfSubset(remote[pair.cal],
                {e \in DOMAIN remote[pair.cal] :
                    /\ e.name = "blackout" /\ e.tag = pair.group
                    /\ e.end > pair.date * MinutesPerDay
                    /\ e.begin < (pair.date + 1) * MinutesPerDay})
\* the pair has a SyncState entry and the run computed another signature
SyncedAndChanged(pair) ==
    /\ pair.date \in DOMAIN sync_state[pair.group]
    /\ sync_state[pair.group][pair.date]
         # SignatureFor(schedule_state, pair.group, pair.date)
OpsOf(kind) == SelectSeq(NewOps, LAMBDA o : o.op = kind)

\* C5 as stated: reconciling an already synced pair whose schedule changed
\* issues exactly one delete batch, for all remote events of the group in
\* the day, and then exactly one insert batch, for the new blackouts only.
C5_OneDeleteThenOneInsert ==
    [][Processing /\ SyncedAndChanged(Head(queue)) =>
        LET pair == Head(queue)
        IN  /\ Len(OpsOf("delete")) = 1
            /\ Len(OpsOf("insert")) = 1
            /\ OpsOf("delete")[1].events = TaggedInDay(pair)
            /\ OpsOf("insert")[1].events = PageBlackouts(run.page, pair.group, pair.date)
            /\ NewOps[Len(NewOps)].op = "insert"]_vars

\* C5 amended: reconciling a pair issues one list call, then at most one
\* delete batch - exactly one, for all listed events of the group, when the
\* list call succeeded and found any; none otherwise - and last at most one
\* insert batch - exactly one, for exactly the blackouts the page gives for
\* the pair, when there are any; none otherwise.
C5_AtMostOneDeleteThenInsert ==
    [][Processing /\ Len(ops') > Len(ops) =>
        LET pair == Head(queue)
            tagged == TaggedInDay(pair)
            blackouts == PageBlackouts(run.page, pair.group, pair.date)
            deletes == IF NewOps[1].ok /\ tagged # EmptyBag THEN <<"delete">> ELSE <<>>
            inserts == IF blackouts # EmptyBag THEN <<"insert">> ELSE <<>>
        IN  /\ [i \in DOMAIN NewOps |-> NewOps[i].op] = <<"list">> \o deletes \o inserts
            /\ \A i \in DOMAIN NewOps :
                  /\ NewOps[i].op = "delete" => NewOps[i].events = tagged
                  /\ NewOps[i].op = "insert" => NewOps[i].events = blackouts
                  /\ NewOps[i].group = pair.group /\ NewOps[i].date = pair.date]_vars

\* a synced pair's schedule changed and its step has issued both batches
C5_Witness ==
    /\ pc = "reconcile"
    /\ Len(ops) = 3
    /\ ops[1].op = "list" /\ ops[2].op = "delete" /\ ops[3].op = "insert"
    /\ ops[2].ok /\ ops[3].ok
    /\ ops[1].date \in DOMAIN GetOr(StoredSync, ops[1].group, EmptyDict)
    /\ StoredSync[ops[1].group][ops[1].date] # sync_state[ops[1].group][ops[1].date]

\* C6: in the shared calendar a step adds or removes only events that
\* carry the tag of the pair it reconciles, in that pair's calendar: every
\* event of another group or without a tag of this system keeps its copies.
C6_OnlyOwnTagTouched ==
    [][\A c \in DOMAIN remote :
         \A e \in DOMAIN remote[c] \cup DOMAIN remote'[c] :
            CopiesIn(e, remote'[c]) # CopiesIn(e, remote[c])
            => Processing /\ c = Head(queue).cal /\ e.tag = Head(queue).group]_vars

\* events of g1 were deleted and inserted beside the events of others
C6_Witness ==
    /\ \E i, j \in DOMAIN ops :
          /\ ops[i].op = "delete" /\ ops[i].group = "g1" /\ ops[i].done # EmptyBag
          /\ ops[j].op = "insert" /\ ops[j].group = "g1" /\ ops[j].done # EmptyBag
    /\ \E e \in DOMAIN remote["c1"] : e.tag = "g9"
    /\ \E e \in DOMAIN remote["c1"] : e.tag = "none"

\* C7: the step of a pair whose group is mapped to a calendar but has no
\* entry in the parsed schedule issues no delete and no insert and leaves
\* the group's SyncState as it is.
C7_UnparsedGroupSkipped ==
    [][Processing /\ ~(schedule_state.hasGroups
                       /\ Head(queue).group \in DOMAIN schedule_state.groups) =>
        /\ \A i \in DOMAIN NewOps : NewOps[i].op \notin {"delete", "insert"}
        /\ sync_state'[Head(queue).group] = sync_state[Head(queue).group]]_vars

\* the class the claim gives a (date, group, signature) against a state
ClaimedClass(prev_state, date, group, sig) ==
    LET dates == IF prev_state.hasDates THEN Range(prev_state.dates) ELSE {}
        groups == IF prev_state.hasGroups THEN prev_state.groups ELSE EmptyDict
        known == group \in DOMAIN groups /\ date \in DOMAIN groups[group]
    IN  IF date \notin dates THEN "New"
        ELSE IF ~known THEN "Changed"
        ELSE IF groups[group][date] # sig THEN "Changed"
        ELSE "Unchanged"

\* C8: every pair of a run is classified New when its date is not among
\* the previous dates, Changed when the previous signature of its group
\* and date is missing or differs from the new one, Unchanged otherwise.
C8_ClassificationAsClaimed ==
    \A k \in DOMAIN run.classes :
        run.classes[k].status = ClaimedClass(PreviousState, run.classes[k].date,
                                             run.classes[k].group, run.classes[k].sig)

\* the run fetched no page, or a page without a schedule header
NothingFetched == run.entry # "none" /\ (~run.page.fetched \/ run.page.sections = <<>>)

\* C9: a run whose fetch failed or whose page has no schedule header has
\* exited with a failure, issued no remote operation, and left
\* ScheduleState, HistoryLog, SyncState, the .ics files and the calendar as
\* they were when it started, also when sync_all started it.
C9_FailedFetchPersistsNothing ==
    NothingFetched => /\ run.exit = "exit1"
                      /\ pc = "idle"
                      /\ ops = <<>>
                      /\ Snapshot = atStart

\* sync_all ran on a page without header over files of an earlier run
C9_Witness ==
    /\ NothingFetched /\ run.entry = "sync" /\ run.page.fetched
    /\ stateFile.kind = "dict" /\ syncFile.kind = "dict" /\ historyFile.kind = "dict"
    /\ Complete(previous)

\* C10: whatever the persisted documents hold, a run over a fetched page
\* with a schedule does not fail.
C10_BadDocumentNeverFatal ==
    (run.entry # "none" /\ ~NothingFetched) => run.exit # "crash"

\* the HistoryLog entry of a date and a group: <<entry>>, or <<>> if none
HistoryEntry(doc, date, group) ==
    LET history == load_json(doc, EmptyDict).val
    IN  IF doc.kind = "dict" /\ date \in DOMAIN history /\ group \in DOMAIN history[date]
        THEN <<history[date][group]>>
        ELSE <<>>
\* the last statistics the page of a run gives for a date and a group
RECURSIVE LastRecorded(_, _, _)
LastRecorded(items, date, group) ==
    IF items = <<>> THEN <<>>
    ELSE LET last == items[Len(items)]
         IN  IF last.date = date /\ last.group = group
             THEN <<[total_seconds |-> last.stats.total_off,
                     intervals |-> last.stats.intervals_list]>>
             ELSE LastRecorded(SubSeq(items, 1, Len(items) - 1), date, group)

NaiveCombine(target_date, literal) == target_date * MinutesPerDay + literal
Resolved == calc.stage \in {"resolved", "sorted", "built"}

\* C12: a time range whose end literal is not after its start literal (the
\* two equal included) resolves to an end exactly one day after the naive
\* combination of the target date with the end literal, and to end > start.
C12_WrapWhenEndNotAfterStart ==
    Resolved =>
        \A i \in DOMAIN calc.time_ranges :
            LET start_str == calc.time_ranges[i][1]
                end_str == calc.time_ranges[i][2]
            IN  (start_str < MinutesPerDay /\ end_str <= start_str)
                => /\ calc.resolved[i][2]
                        = NaiveCombine(calc.target_date, end_str) + MinutesPerDay
                   /\ calc.resolved[i][2] > calc.resolved[i][1]

\* C13: whatever the start literal, an end literal of 24:00 resolves to
\* midnight of the day after the target date; the wrap rule never moves it
\* a further day on.
C13_EndOfDayNeverDoubleAdvanced ==
    Resolved =>
        \A i \in DOMAIN calc.time_ranges :
            calc.time_ranges[i][2] = MinutesPerDay
            => calc.resolved[i][2] = (calc.target_date + 1) * MinutesPerDay

\* ranges ending at 24:00 were resolved, one of them starting at 24:00 too
C13_Witness ==
    /\ Resolved
    /\ calc.time_ranges = <<<<600, MinutesPerDay>>, <<MinutesPerDay, MinutesPerDay>>>>
    /\ calc.resolved[2][2] = (calc.target_date + 1) * MinutesPerDay

\* the interval lists generate_events_for_group can pass to the signature
ResolvedLists ==
    {[i \in DOMAIN l |-> ResolveRange(d, l[i])] : d \in Dates, l \in TimeRangeLists}
\* an interval list as ordered (start, end) clock-time pairs
ClockPairs(intervals) ==
    [i \in DOMAIN intervals |-> <<Clock(intervals[i][1]), Clock(intervals[i][2])>>]
\* every signature with the clock-time pairs of a list that has it
SignatureTable == {<<get_intervals_signature(l), ClockPairs(l)>> : l \in ResolvedLists}
\* no signature stands for two lists of pairs, no list of pairs has two
OneToOne ==
    /\ Cardinality({entry[1] : entry \in SignatureTable}) = Cardinality(SignatureTable)
    /\ Cardinality({entry[2] : entry \in SignatureTable}) = Cardinality(SignatureTable)
Built == calc.stage = "built"

\* C14: the signature of an interval list equals the signature of another
\* list exactly when the two are equal as ordered (start, end) clock-time
\* pairs, and it is the empty string exactly for the empty list.
C14_SignatureInjective ==
    Built =>
        /\ <<calc.intervals_signature, ClockPairs(calc.blackout_intervals)>>
              \in SignatureTable
        /\ OneToOne
        /\ (calc.intervals_signature = "") <=> (calc.blackout_intervals = <<>>)

\* a two-interval list was signed; the same clock times on the other date
\* give the same signature, a list differing in one minute bound another
C14_Witness ==
    /\ Built
    /\ calc.target_date = 1
    /\ calc.blackout_intervals = <<<<2040, 2160>>, <<2160, 2880>>>>
    /\ calc.intervals_signature = "10:00-12:00|12:00-00:00"
    /\ get_intervals_signature(<<<<3480, 3600>>, <<3600, 4320>>>>)
         = calc.intervals_signature
    /\ get_intervals_signature(<<<<2055, 2160>>, <<2160, 2880>>>>)
         # calc.intervals_signature

\* the reorderings of a sequence
Reorderings(s) ==
    {[i \in DOMAIN s |-> s[p[i]]] :
        p \in {q \in [DOMAIN s -> DOMAIN s] : \A i, j \in DOMAIN s : q[i] = q[j] => i = j}}

\* C15: every reordering of the parsed intervals gives, after the sort, the
\* signature the run computed, also when two intervals share their start.
C15_ReorderingSameSignature ==
    Built =>
        \A reordered \in Reorderings(calc.resolved) :
            get_intervals_signature(SortByStart(reordered)) = calc.intervals_signature

\* no interval of a sorted list begins before an earlier one has ended
NonOverlapping(intervals) ==
    \A i, j \in DOMAIN intervals : i < j => intervals[i][2] <= intervals[j][1]
\* how many blackout intervals and power-available events hold instant t
CoveredBy(t) ==
    Cardinality({k \in DOMAIN calc.blackout_intervals :
                    calc.blackout_intervals[k][1] <= t /\ t < calc.blackout_intervals[k][2]})
    + Cardinality({k \in DOMAIN calc.positive_events :
                    calc.positive_events[k].begin <= t /\ t < calc.positive_events[k].end})
\* the instants of the day at which the cover can change
Boundaries ==
    LET day_start == calc.target_date * MinutesPerDay
        all == {day_start}
               \cup {calc.blackout_intervals[k][n] :
                        k \in DOMAIN calc.blackout_intervals, n \in 1..2}
               \cup {calc.positive_events[k].begin : k \in DOMAIN calc.positive_events}
               \cup {calc.positive_events[k].end : k \in DOMAIN calc.positive_events}
    IN  {t \in all : day_start <= t /\ t < day_start + MinutesPerDay}

\* C16: for sorted blackout intervals that do not overlap, every instant of
\* the day lies in exactly one blackout or power-available interval, and
\* every power-available interval has a positive length.
C16_TimelineCoversDayOnce ==
    (Built /\ NonOverlapping(calc.blackout_intervals)) =>
        /\ \A t \in Boundaries : CoveredBy(t) = 1
        /\ \A k \in DOMAIN calc.positive_events :
              calc.positive_events[k].begin < calc.positive_events[k].end

\* two blackouts, the second into the next day, with the gaps before and
\* between them
C16_Witness ==
    /\ Built /\ calc.target_date = 1
    /\ calc.blackout_intervals = <<<<2040, 2055>>, <<2160, 3480>>>>
    /\ calc.positive_events = <<[name |-> "power", begin |-> 1440, end |-> 2040],
                                [name |-> "power", begin |-> 2055, end |-> 2160]>>

\* C17: every event a step adds to a remote calendar is a blackout event
\* with the tag of the pair being reconciled, of a blackout interval the
\* page gives for that group on that date; no power-available event is
\* ever added.
C17_OnlyOutagesInserted ==
    [][\A c \in DOMAIN remote :
         \A e \in DOMAIN remote'[c] :
            CopiesIn(e, remote'[c]) > CopiesIn(e, remote[c])
            => /\ Processing
               /\ e.name = "blackout"
               /\ e.tag = Head(queue).group
               /\ BagIn(e, PageBlackouts(run.page, Head(queue).group, Head(queue).date))]_vars

\* an outage was inserted while the .ics file also holds power-available
\* events of that day
C17_Witness ==
    /\ \E i \in DOMAIN ops :
          /\ ops[i].op = "insert" /\ ops[i].done # EmptyBag
          /\ \E e \in DOMAIN icsFiles[ops[i].group] :
                e.name = "power" /\ DateOf(e.begin) = ops[i].date
          /\ \E e \in DOMAIN remote["c1"] :
                e.tag = ops[i].group /\ DateOf(e.begin) = ops[i].date
    /\ \A e \in DOMAIN remote["c1"] : e.name = "blackout"

\* C18: in a run of sync_all the ScheduleState file is written only once
\* every pair has been decided, and each pair is decided on the signature
\* the run computed for it, whatever became of that write.
C18_PersistAfterReconcile ==
    [][/\ (stateFile' # stateFile /\ run'.entry = "sync")
            => (pc = "reconcile" /\ queue = <<>>)
       /\ Processing
            => LET pair == Head(queue)
                   fresh == GetOr(GetOr(FreshSignatures, pair.group, EmptyDict), pair.date, "")
               IN  (ops' # ops) <=> ~IsSynced(sync_state[pair.group], pair.date, fresh)]_vars

\* the length of a slot of the timeline in minutes
SlotMinutes == MinutesPerDay \div SlotCount
\* slot i of the day of start_of_day and the interval share an instant
Intersects(interval, i, start_of_day) ==
    /\ interval[1] < start_of_day + (i + 1) * SlotMinutes
    /\ interval[2] > start_of_day + i * SlotMinutes
    /\ interval[1] < interval[2]

\* C19: slot i of the timeline is marked exactly when some blackout
\* interval intersects [i*30min, (i+1)*30min) of the day, whether or not
\* its bounds fall on a half hour and also when it ends after midnight.
C19_SlotMarkedIffIntersected ==
    Built =>
        \A i \in 0..(SlotCount - 1) :
            (i \in calc.slots)
            <=> \E k \in DOMAIN calc.blackout_intervals :
                   Intersects(calc.blackout_intervals[k], i,
                              calc.target_date * MinutesPerDay)

\* the run found a ScheduleState of the legacy shape and went through its page
LegacyRun ==
    /\ atStart.stateFile.kind = "dict"
    /\ atStart.stateFile.val.hasGroups /\ ~atStart.stateFile.val.hasDates
    /\ run.exit \in {"ok", "running"}

\* C20: a run that finds a ScheduleState with groups but no dates
\* classifies every pair New and, its write succeeding, leaves a state with
\* dates and groups in which every date under a group is among the dates.
C20_LegacyStateDiscarded ==
    LegacyRun =>
        /\ \A k \in DOMAIN run.classes : run.classes[k].status = "New"
        /\ run.stateSaved =>
              /\ stateFile.kind = "dict"
              /\ stateFile.val.hasDates /\ stateFile.val.hasGroups
              /\ \A g \in DOMAIN stateFile.val.groups :
                    DOMAIN stateFile.val.groups[g] \subseteq Range(stateFile.val.dates)

\* a run over a page of two dates replaced the legacy state
C20_Witness ==
    /\ LegacyRun /\ atStart.stateFile = LegacyStateDoc
    /\ run.exit = "ok" /\ run.stateSaved
    /\ Len(run.classes) = 2
    /\ DOMAIN stateFile.val.groups["g1"] = {1, 2}

\* the remote events of a group that begin on a date
RemoteOn(calendar, group, date) ==
    BagOfSubset(calendar, {e \in DOMAIN calendar :
                              e.tag = group /\ e.name = "blackout" /\ DateOf(e.begin) = date})
PageDates(page) == {page.sections[i].date : i \in DOMAIN page.sections}
\* every remote operation of the run did all it was sent to do
AllSucceeded == \A i \in DOMAIN ops : ops[i].ok /\ ops[i].done = ops[i].events

\* C21: the step of a pair (group, D) takes no copy away of a remote event
\* of the group that begins on another date and is a blackout interval of
\* the page for that date; and when sync_all ends a run in which every
\* remote operation succeeded, the group's remote events of each date of
\* the page are the blackout intervals of the page for that date.
C21_OtherDatesEventsKept ==
    [][/\ Processing =>
            LET pair == Head(queue)
            IN  \A e \in DOMAIN remote[pair.cal] :
                    (/\ e.tag = pair.group /\ DateOf(e.begin) # pair.date
                     /\ BagIn(e, PageBlackouts(run.page, pair.group, DateOf(e.begin))))
                    => CopiesIn(e, remote'[pair.cal]) >= CopiesIn(e, remote[pair.cal])
       /\ (pc = "reconcile" /\ pc' = "idle" /\ AllSucceeded) =>
            \A d \in PageDates(run.page) :
                RemoteOn(remote'["c1"], "g1", d) = PageBlackouts(run.page, "g1", d)]_vars

\* the list call of the step failed, or its delete batch did not remove
\* all it was sent to remove, while events of the pair are in the calendar
OldEventsLeft ==
    /\ TaggedInDay(Head(queue)) # EmptyBag
    /\ \/ ~NewOps[1].ok
       \/ \E i \in DOMAIN NewOps : NewOps[i].op = "delete" /\ ~NewOps[i].ok

\* C22: no calendar ever holds two events with the same tag, start and
\* end, and a step whose list or delete phase failed and left the old
\* events of the pair in place issues no insert batch.
C22_NoDuplicateEvents ==
    [][/\ \A c \in DOMAIN remote : \A e \in DOMAIN remote'[c] : CopiesIn(e, remote'[c]) <= 1
       /\ (Processing /\ Len(ops') > Len(ops) /\ OldEventsLeft)
            => \A i \in DOMAIN NewOps : NewOps[i].op # "insert"]_vars
====
